---- MODULE Spec2Model ----
(***************************************************************************)
(* ChestXrayAnalyzer (TensorFlow.js analysis server): the feature          *)
(* heuristic, the validity gate, the rule classifier and the report        *)
(* assembler, and analyzeImage as the asynchronous pipeline that runs      *)
(* them on the shared analyzer instance; and POST /api/analyze of the      *)
(* three servers of the repository, from the upload to the response; and  *)
(* the browser side: analyzeImage of services/api.js, the Gemini React app *)
(* (App and ImageUpload) and the DenseNet React App.                       *)
(*                                                                         *)
(* Numbers.  Intensities and features are JavaScript numbers in [0,1]; the *)
(* model holds them in fixed point, an integer count of 1/Scale, so 0.3 is *)
(* Frac(3, 10).  Every threshold of the source is a multiple of 0.01 and   *)
(* so is exact in this unit.                                               *)
(***************************************************************************)
EXTENDS Integers, Sequences, FiniteSets, TLC

\* The fixed-point unit: the model's 1.0 (a normalized intensity of 255/255).
Scale == 10000

Frac(num, den) == (num * Scale) \div den

Abs(x) == IF x < 0 THEN -x ELSE x

Min(a, b) == IF a < b THEN a ELSE b

-----------------------------------------------------------------------------
(* State: the analyzer instance, the tf engine, one record per analyzeImage *)
(* call in flight, the function bench, one request to a server, and the    *)
(* state of the browser side.  None is <<>>, Some(x) is <<x>>.              *)

VARIABLES
    conditions,   \* analyzer.conditions, shared by every call
    liveTensors,  \* tensors the tf engine holds that no one disposed
    sobelDefined, \* whether tf.image.sobelEdgeDetection is a function in this tfjs build
    pc,           \* pc[c]: where call c stands
    imageBuffer,  \* imageBuffer[c]: the imageBuffer call c was given
    normalized,   \* normalized[c]: <<the normalized tensor>> once it exists
    partial,      \* partial[c]: <<mean, std, edgeDensity>> held across the await
    bins,         \* bins[c]: <<the histogram>> once computeHistogram returned
    extracted,    \* extracted[c]: <<the feature record>> once extracted
    gate,         \* gate[c]: <<isValidXray>> once validateChestXray ran
    predicted,    \* predicted[c]: <<the sorted list>> once predictConditions ran
    result,       \* result[c]: <<the record analyzeImage resolved with>>
    thrown,       \* thrown[c]: <<the message of the Error it rejected with>>
    trace,        \* trace[c]: the methods call c has entered, in order
    elapsed,      \* elapsed[c]: wall-clock milliseconds call c took, once it completed
    fpc,          \* the function bench: what has been applied so far
    fv,           \* the bench's feature vector
    fgate,        \* <<validateChestXray(fv)>>
    fpreds,       \* <<the prediction list>>: predictConditions(fv), or given
    freport,      \* <<generateMedicalAnalysis(fpreds)>>
    variant,      \* which server the request is sent to
    genAI,        \* whether the Gemini client was created at startup
    upload,       \* <<the file part of the request>>, or none
    hpc,          \* where the request stands
    reqFile,      \* req.file: <<the accepted upload>>, or undefined
    onDisk,       \* whether the upload is in the uploads directory
    unlinkRequests, \* fs.unlink calls made for the upload
    attempts,     \* the backends the file was given to, in order, with outcomes
    responses,    \* the responses sent for the request
    apiCalls,     \* services/api.js: the analyzeImage calls made, each with its file and outcome
    posts,        \* services/api.js: the files api.post('/api/analyze') was called with
    selectedImage,  \* DenseNet App: useState selectedImage
    imagePreview,   \* DenseNet App: useState imagePreview
    analysisResult, \* DenseNet App: useState analysisResult
    loading,        \* DenseNet App: useState loading
    uiError,        \* DenseNet App: useState error
    job,            \* DenseNet App: where the analysis analyzeImage started stands
    jobImage,       \* DenseNet App: the file that analysis reads and posts
    previewReaders, \* DenseNet App: the files whose preview FileReader has not fired onload yet
    discarded,      \* DenseNet App: resetAnalysis ran and analyzeImage has not been started since
    isAnalyzing,    \* Gemini App: useState isAnalyzing
    analysisData,   \* Gemini App: useState analysisData
    uploadedImage,  \* Gemini App: useState uploadedImage
    uploadedFile,   \* ImageUpload: useState uploadedFile
    preview,        \* ImageUpload: useState preview
    dropReaders,    \* ImageUpload: the files whose preview FileReader has not fired onload yet
    awaiting,       \* ImageUpload: handleAnalyze is suspended at await analyzeImage(uploadedFile)
    starts,         \* ImageUpload: the calls of onAnalysisStart made so far
    completes,      \* ImageUpload: the arguments of the calls of onAnalysisComplete, in order
    toast           \* ImageUpload: the last toast shown

-----------------------------------------------------------------------------
(* Static configuration of the analyzer.                                   *)

\* this.conditions, set once by the constructor.
ConditionTable ==
    [ Normal           |-> [threshold |-> Frac(70, 100), severity |-> "low"],
      Pneumonia        |-> [threshold |-> Frac(60, 100), severity |-> "high"],
      COVID_19         |-> [threshold |-> Frac(65, 100), severity |-> "high"],
      Pneumothorax     |-> [threshold |-> Frac(55, 100), severity |-> "high"],
      Pleural_Effusion |-> [threshold |-> Frac(50, 100), severity |-> "medium"],
      Cardiomegaly     |-> [threshold |-> Frac(45, 100), severity |-> "medium"],
      Atelectasis      |-> [threshold |-> Frac(40, 100), severity |-> "medium"],
      Consolidation    |-> [threshold |-> Frac(50, 100), severity |-> "medium"],
      Edema            |-> [threshold |-> Frac(45, 100), severity |-> "medium"],
      Mass             |-> [threshold |-> Frac(60, 100), severity |-> "high"] ]

\* The object key of a label: 'COVID-19' is held under the field COVID_19.
KeyOf(label) == IF label = "COVID-19" THEN "COVID_19" ELSE label

\* String.prototype.replace('_', ' '): the first underscore becomes a space.
replaceUnderscore(label) ==
    CASE label = "Pleural_Effusion" -> "Pleural Effusion"
      [] label = "Ground_Glass_Opacity" -> "Ground Glass_Opacity"
      [] OTHER -> label

-----------------------------------------------------------------------------
(* validateChestXray                                                       *)

\* The four checks with >= and <= in place of > and <.
validateChestXray_NonStrict(features) ==
    LET validBrightness == features.brightness >= Frac(1, 10) /\ features.brightness <= Frac(9, 10)
        validContrast   == features.contrast >= Frac(5, 100) /\ features.contrast <= Frac(4, 10)
        validSymmetry   == features.symmetry >= Frac(6, 10)
        validEdges      == features.edgeDensity >= Frac(1, 100)
    IN  validBrightness /\ validContrast /\ validSymmetry /\ validEdges

\* A contrast check with a second admitted band above 0.45.
validateChestXray_Band(features) ==
    LET validBrightness == features.brightness > Frac(1, 10) /\ features.brightness < Frac(9, 10)
        validContrast   == \/ features.contrast > Frac(5, 100) /\ features.contrast < Frac(4, 10)
                           \/ features.contrast > Frac(45, 100)
        validSymmetry   == features.symmetry > Frac(6, 10)
        validEdges      == features.edgeDensity > Frac(1, 100)
    IN  validBrightness /\ validContrast /\ validSymmetry /\ validEdges

\* A gate that also refuses while the engine holds many tensors.
validateChestXray_UnderLoad(features) ==
    LET validBrightness == features.brightness > Frac(1, 10) /\ features.brightness < Frac(9, 10)
        validContrast   == features.contrast > Frac(5, 100) /\ features.contrast < Frac(4, 10)
        validSymmetry   == features.symmetry > Frac(6, 10)
        validEdges      == features.edgeDensity > Frac(1, 100)
    IN  validBrightness /\ validContrast /\ validSymmetry /\ validEdges /\ liveTensors < 12

validateChestXray(features) ==
    LET validBrightness == features.brightness > Frac(1, 10) /\ features.brightness < Frac(9, 10)
        validContrast   == features.contrast > Frac(5, 100) /\ features.contrast < Frac(4, 10)
        validSymmetry   == features.symmetry > Frac(6, 10)
        validEdges      == features.edgeDensity > Frac(1, 100)
    IN  validBrightness /\ validContrast /\ validSymmetry /\ validEdges

-----------------------------------------------------------------------------
(* predictConditions                                                       *)

\* The comparator handed to Array.prototype.sort: negative when a goes first.
compareConfidence(a, b) == b.confidence - a.confidence

\* Array.prototype.sort is stable: x goes behind every element that does not
\* compare after it.
RECURSIVE InsertSorted(_, _)
InsertSorted(s, x) ==
    IF s = <<>> THEN <<x>>
    ELSE IF compareConfidence(Head(s), x) <= 0
         THEN <<Head(s)>> \o InsertSorted(Tail(s), x)
         ELSE <<x>> \o s

RECURSIVE sortPredictions(_)
sortPredictions(s) ==
    IF s = <<>> THEN <<>>
    ELSE InsertSorted(sortPredictions(SubSeq(s, 1, Len(s) - 1)), s[Len(s)])

\* if (cond) predictions.push(item)
PushIf(predictions, cond, label, conf) ==
    IF cond THEN Append(predictions, [condition |-> label, confidence |-> conf])
    ELSE predictions

\* The rules with the Pleural_Effusion predicate reduced to brightness > 0.6.
ruleMatches_BrightEffusion(features) ==
    LET brightness  == features.brightness
        contrast    == features.contrast
        edgeDensity == features.edgeDensity
        histogram   == features.histogram
        p1 == PushIf(<<>>, brightness < Frac(3, 10) /\ contrast > Frac(15, 100), "Pneumonia", 82)
        p2 == PushIf(p1, brightness < Frac(25, 100) /\ edgeDensity > Frac(8, 100), "COVID-19", 78)
        p3 == PushIf(p2, contrast > Frac(25, 100) /\ edgeDensity > Frac(12, 100), "Pneumothorax", 75)
        p4 == PushIf(p3, brightness > Frac(6, 10), "Pleural_Effusion", 70)
        p5 == PushIf(p4, edgeDensity > Frac(15, 100), "Cardiomegaly", 68)
        p6 == PushIf(p5, brightness < Frac(4, 10) /\ histogram[1] > histogram[10], "Consolidation", 72)
    IN  p6

\* The rules in source order, before the fallback and the sort.
ruleMatches(features) ==
    LET brightness  == features.brightness
        contrast    == features.contrast
        edgeDensity == features.edgeDensity
        histogram   == features.histogram
        p1 == PushIf(<<>>, brightness < Frac(3, 10) /\ contrast > Frac(15, 100), "Pneumonia", 82)
        p2 == PushIf(p1, brightness < Frac(25, 100) /\ edgeDensity > Frac(8, 100), "COVID-19", 78)
        p3 == PushIf(p2, contrast > Frac(25, 100) /\ edgeDensity > Frac(12, 100), "Pneumothorax", 75)
        p4 == PushIf(p3, brightness > Frac(6, 10) /\ contrast < Frac(1, 10), "Pleural_Effusion", 70)
        p5 == PushIf(p4, edgeDensity > Frac(15, 100), "Cardiomegaly", 68)
        p6 == PushIf(p5, brightness < Frac(4, 10) /\ histogram[1] > histogram[10], "Consolidation", 72)
    IN  p6

withNormalFallback(predictions) ==
    PushIf(predictions, Len(predictions) = 0, "Normal", 85)

\* The list returned as pushed, without the sort.
predictConditions_NoSort(features) == withNormalFallback(ruleMatches(features))

\* The six rules chained with else-if: only the first that holds is pushed.
predictConditions_ElseIf(features) ==
    LET all == ruleMatches(features)
    IN  sortPredictions(withNormalFallback(IF all = <<>> THEN all ELSE <<all[1]>>))

\* Normal pushed whatever the length of the list.
predictConditions_AlwaysNormal(features) ==
    sortPredictions(Append(ruleMatches(features), [condition |-> "Normal", confidence |-> 85]))

predictConditions(features) ==
    sortPredictions(withNormalFallback(ruleMatches(features)))

-----------------------------------------------------------------------------
(* generateMedicalAnalysis and its lookups                                 *)

GenericDescription == "Medical condition detected requiring evaluation."

getConditionDescription(condition) ==
    CASE condition = "Normal" -> "Clear lung fields with no acute abnormalities detected."
      [] condition = "Pneumonia" -> "Signs consistent with pneumonia showing consolidation or infiltration."
      [] condition = "COVID-19" -> "Patterns consistent with COVID-19 pneumonia showing ground-glass opacities."
      [] condition = "Pneumothorax" -> "Possible pneumothorax indicating air in pleural space."
      [] condition = "Pleural_Effusion" -> "Pleural effusion showing fluid accumulation."
      [] condition = "Cardiomegaly" -> "Enlarged heart detected."
      [] condition = "Atelectasis" -> "Collapsed or partially collapsed lung tissue."
      [] condition = "Consolidation" -> "Lung consolidation indicating filled alveoli."
      [] condition = "Edema" -> "Pulmonary edema showing fluid in lung tissue."
      [] condition = "Mass" -> "Mass or nodule detected requiring evaluation."
      [] OTHER -> GenericDescription

GenericRecommendations ==
    << [title |-> "Professional Review", description |-> "Consult healthcare professional.", priority |-> "medium"] >>

\* The COVID-19 entry keyed 'COVID_19': the label 'COVID-19' misses it.
getRecommendations_KeyMismatch(condition) ==
    CASE condition = "Normal" ->
           << [title |-> "Routine Monitoring", description |-> "Continue regular health check-ups.", priority |-> "low"] >>
      [] condition = "Pneumonia" ->
           << [title |-> "Immediate Medical Attention", description |-> "Seek immediate medical care.", priority |-> "high"] >>
      [] OTHER -> GenericRecommendations

getRecommendations(condition) ==
    CASE condition = "Normal" ->
           << [title |-> "Routine Monitoring", description |-> "Continue regular health check-ups.", priority |-> "low"] >>
      [] condition = "Pneumonia" ->
           << [title |-> "Immediate Medical Attention", description |-> "Seek immediate medical care.", priority |-> "high"] >>
      [] condition = "COVID-19" ->
           << [title |-> "Isolation and Medical Care", description |-> "Follow COVID-19 protocols and seek care.", priority |-> "high"] >>
      [] OTHER -> GenericRecommendations

\* Array.prototype.slice(from, to) on a 0-based array, as a 1-based sequence.
slice(s, from, to) == SubSeq(s, from + 1, Min(to, Len(s)))

\* this.conditions[label]?.severity || 'medium', read from the table the
\* analyzer holds.
severityOf(table, label) ==
    IF KeyOf(label) \in DOMAIN table THEN table[KeyOf(label)].severity ELSE "medium"

\* additionalFindings taken with slice(1): everything after the first.
generateDetailedAnalysis_NoCap(predictions) ==
    [ primaryFinding     |-> replaceUnderscore(predictions[1].condition),
      confidence         |-> predictions[1].confidence,
      additionalFindings |-> [i \in 1..(Len(predictions) - 1) |->
                                 replaceUnderscore(predictions[i + 1].condition)],
      imageQuality       |-> "Good",
      technicalNotes     |-> "Analysis using medical imaging patterns from chest database" ]

generateDetailedAnalysis(predictions) ==
    [ primaryFinding     |-> replaceUnderscore(predictions[1].condition),
      confidence         |-> predictions[1].confidence,
      additionalFindings |-> [i \in 1..Len(slice(predictions, 1, 3)) |->
                                 replaceUnderscore(slice(predictions, 1, 3)[i].condition)],
      imageQuality       |-> "Good",
      technicalNotes     |-> "Analysis using medical imaging patterns from chest database" ]

\* findings mapped over every prediction, without slice(0, 3).
findingsOf_All(table, predictions) ==
    [i \in 1..Len(predictions) |->
        [ condition   |-> replaceUnderscore(predictions[i].condition),
          description |-> getConditionDescription(predictions[i].condition),
          severity    |-> severityOf(table, predictions[i].condition),
          confidence  |-> predictions[i].confidence ]]

findingsOf(table, predictions) ==
    [i \in 1..Len(slice(predictions, 0, 3)) |->
        [ condition   |-> replaceUnderscore(slice(predictions, 0, 3)[i].condition),
          description |-> getConditionDescription(slice(predictions, 0, 3)[i].condition),
          severity    |-> severityOf(table, slice(predictions, 0, 3)[i].condition),
          confidence  |-> slice(predictions, 0, 3)[i].confidence ]]

generateMedicalAnalysis(table, predictions) ==
    [ isValidXray     |-> TRUE,
      confidence      |-> predictions[1].confidence,
      analysis        |-> generateDetailedAnalysis(predictions),
      findings        |-> findingsOf(table, predictions),
      recommendations |-> getRecommendations(predictions[1].condition),
      disclaimer      |-> "This AI analysis is for educational purposes only. Always consult healthcare professionals.",
      processingTime  |-> "2.3s",
      modelUsed       |-> "TensorFlow.js + Medical Imaging Analysis" ]

-----------------------------------------------------------------------------
(* Preprocessing and extractMedicalFeatures.  An image is the S x S grid   *)
(* of 8-bit gray samples that sharp(...).resize().grayscale().raw() hands  *)
(* back: img[r][c] in 0..255, rows and columns counted from 1.             *)

\* The side of the square every image is resized to (224 in the source).
ImgSize == 4

\* The cells of columns c1..c2 of the grid, row by row.
Block(c1, c2) ==
    [k \in 1..(ImgSize * (c2 - c1 + 1)) |->
        << ((k - 1) \div (c2 - c1 + 1)) + 1, ((k - 1) % (c2 - c1 + 1)) + c1 >>]

Pixels == Block(1, ImgSize)

RECURSIVE SumFirst(_, _)
SumFirst(f, n) == IF n = 0 THEN 0 ELSE f[n] + SumFirst(f, n - 1)

\* tf.mean over some cells of a grid of numbers.
meanOver(cells, grid) ==
    SumFirst([k \in 1..Len(cells) |-> grid[cells[k][1]][cells[k][2]]], Len(cells)) \div Len(cells)

\* The largest r with r * r <= v, for 0 <= v <= hi * hi.
RECURSIVE SqrtBetween(_, _, _)
SqrtBetween(v, lo, hi) ==
    IF lo >= hi THEN lo
    ELSE LET mid == (lo + hi + 1) \div 2
         IN  IF mid * mid <= v THEN SqrtBetween(v, mid, hi)
             ELSE SqrtBetween(v, lo, mid - 1)

sqrt(v) == SqrtBetween(v, 0, Scale)

\* tensor.div(255.0): every sample scaled to [0, 1].
normalize(img) ==
    [r \in 1..ImgSize |-> [c \in 1..ImgSize |-> (img[r][c] * Scale) \div 255]]

\* The second raw moment: the mean of the squares, the mean not subtracted.
variance_RawMoment(tensor) ==
    meanOver(Pixels, [r \in 1..ImgSize |-> [c \in 1..ImgSize |-> tensor[r][c] * tensor[r][c]]])

\* tf.moments(tensor).variance: the population variance, in units of 1/Scale^2.
variance(tensor) ==
    LET m == meanOver(Pixels, tensor)
    IN  meanOver(Pixels, [r \in 1..ImgSize |-> [c \in 1..ImgSize |->
                             (tensor[r][c] - m) * (tensor[r][c] - m)]])

\* Reflection of an index that leaves the grid by one (REFLECT padding).
Reflect(i) == IF i < 1 THEN 2 ELSE IF i > ImgSize THEN ImgSize - 1 ELSE i

At(tensor, r, c) == tensor[Reflect(r)][Reflect(c)]

\* The two Sobel responses at a pixel: the vertical and the horizontal
\* derivative, each signed.
sobelDy(tensor, r, c) ==
      (At(tensor, r + 1, c - 1) + 2 * At(tensor, r + 1, c) + At(tensor, r + 1, c + 1))
    - (At(tensor, r - 1, c - 1) + 2 * At(tensor, r - 1, c) + At(tensor, r - 1, c + 1))

sobelDx(tensor, r, c) ==
      (At(tensor, r - 1, c + 1) + 2 * At(tensor, r, c + 1) + At(tensor, r + 1, c + 1))
    - (At(tensor, r - 1, c - 1) + 2 * At(tensor, r, c - 1) + At(tensor, r + 1, c - 1))

\* tf.image.sobelEdgeDetection(tensor.expandDims(0)): both responses of every pixel.
sobelEdgeDetection(tensor) ==
    [r \in 1..ImgSize |-> [c \in 1..ImgSize |->
        [dy |-> sobelDy(tensor, r, c), dx |-> sobelDx(tensor, r, c)]]]

\* tf.mean(sobelX): the plain mean of every entry of the filter's output.
edgeMean(sobelX) ==
    SumFirst([k \in 1..Len(Pixels) |->
                 LET at == sobelX[Pixels[k][1]][Pixels[k][2]] IN at.dy + at.dx],
             Len(Pixels)) \div (2 * Len(Pixels))

\* The bin index without the clamp to 9.
binIndex_NoClamp(v) == (v * 10) \div Scale

\* computeHistogram: bins[Math.min(Math.floor(v * 10), 9)]++ for every sample.
binIndex(v) == Min((v * 10) \div Scale, 9)

computeHistogram(tensor) ==
    [b \in 1..10 |->
        Cardinality({k \in 1..Len(Pixels) : binIndex(tensor[Pixels[k][1]][Pixels[k][2]]) = b - 1})]

\* The difference of the two halves' means, not subtracted from 1.
calculateSymmetry_Asymmetry(tensor) ==
    LET width     == ImgSize
        leftMean  == meanOver(Block(1, width \div 2), tensor)
        rightMean == meanOver(Block(((width + 1) \div 2) + 1, width), tensor)
    IN  Abs(leftMean - rightMean)

\* calculateSymmetry: columns [0, floor(w/2)) against columns [ceil(w/2), w).
calculateSymmetry(tensor) ==
    LET width     == ImgSize
        leftHalf  == Block(1, width \div 2)
        rightHalf == Block(((width + 1) \div 2) + 1, width)
        leftMean  == meanOver(leftHalf, tensor)
        rightMean == meanOver(rightHalf, tensor)
    IN  Scale - Abs(leftMean - rightMean)

\* The part of extractMedicalFeatures that runs before the histogram is awaited.
featuresBeforeHistogram(tensor) ==
    [ brightness  |-> meanOver(Pixels, tensor),
      contrast    |-> sqrt(variance(tensor)),
      edgeDensity |-> edgeMean(sobelEdgeDetection(tensor)) ]

extractMedicalFeatures(tensor) ==
    [ brightness  |-> featuresBeforeHistogram(tensor).brightness,
      contrast    |-> featuresBeforeHistogram(tensor).contrast,
      edgeDensity |-> featuresBeforeHistogram(tensor).edgeDensity,
      histogram   |-> computeHistogram(tensor),
      symmetry    |-> calculateSymmetry(tensor) ]

-----------------------------------------------------------------------------
(* Inputs.                                                                 *)

\* Concurrent analyzeImage calls on the one analyzer instance.
MaxCalls == 2

Calls == 1..MaxCalls

\* An upload: bytes sharp cannot decode, or a picture.  A picture is given by
\* the gray levels of its four quadrants; sharp resizes it to ImgSize x ImgSize.
Picture(a, b, c, d) == [decodable |-> TRUE, layout |-> "quadrants", levels |-> <<a, b, c, d>>]

\* A picture made of ImgSize vertical stripes, given by their gray levels.
Columns(levels) == [decodable |-> TRUE, layout |-> "columns", levels |-> levels]

Corrupt == [decodable |-> FALSE, layout |-> "quadrants", levels |-> <<0, 0, 0, 0>>]

SampleBuffers ==
    { Corrupt,
      Picture(128, 128, 128, 128),   \* flat gray
      Picture(0, 255, 0, 255),       \* dark left half, bright right half
      Picture(0, 51, 230, 26),       \* one bright quadrant in a dark picture
      Picture(128, 153, 153, 179),   \* bright, low contrast
      Picture(0, 0, 102, 13),        \* dark, moderate contrast
      Picture(0, 0, 0, 153) }        \* dark, one gray quadrant, strong edges

\* sharp(imageBuffer).resize(S, S).grayscale().raw().toBuffer(), once it resolved.
sharpRaw(buf) ==
    LET half == ImgSize \div 2
        q    == buf.levels
    IN  [r \in 1..ImgSize |-> [c \in 1..ImgSize |->
            IF buf.layout = "columns" THEN q[c]
            ELSE IF r <= half THEN (IF c <= half THEN q[1] ELSE q[2])
                              ELSE (IF c <= half THEN q[3] ELSE q[4])]]

\* The gray levels of the striped pictures.
Palette == {0, 51, 128, 255}

\* The uploads of the one-call specification: the samples, every flat picture
\* and every striped picture over the palette.
ImageBuffers ==
    SampleBuffers
        \cup { Picture(g, g, g, g) : g \in 0..255 }
        \cup { Columns(l) : l \in [1..ImgSize -> Palette] }

\* Wall-clock durations a call may take, in milliseconds.
Durations == {400, 2300}

-----------------------------------------------------------------------------
(* Initial state.                                                          *)

callVars ==
    <<pc, imageBuffer, normalized, partial, bins, extracted, gate, predicted, result, thrown,
      trace, elapsed>>

benchVars == <<fpc, fv, fgate, fpreds, freport>>

serverVars == <<variant, genAI, upload, hpc, reqFile, onDisk, unlinkRequests, attempts, responses>>

clientVars == <<apiCalls, posts>>

denseVars ==
    <<selectedImage, imagePreview, analysisResult, loading, uiError, job, jobImage, previewReaders,
      discarded>>

reactVars ==
    <<isAnalyzing, analysisData, uploadedImage, uploadedFile, preview, dropReaders, awaiting, starts,
      completes, toast>>

frontVars == <<clientVars, denseVars, reactVars>>

vars == <<conditions, liveTensors, sobelDefined, callVars, benchVars, serverVars, frontVars>>

None == <<>>

Some(x) == <<x>>

InitAnalyzer ==
    /\ conditions = ConditionTable
    /\ liveTensors = 0

InitCalls ==
    /\ pc = [c \in Calls |-> "idle"]
    /\ imageBuffer = [c \in Calls |-> Corrupt]
    /\ normalized = [c \in Calls |-> None]
    /\ partial = [c \in Calls |-> None]
    /\ bins = [c \in Calls |-> None]
    /\ extracted = [c \in Calls |-> None]
    /\ gate = [c \in Calls |-> None]
    /\ predicted = [c \in Calls |-> None]
    /\ result = [c \in Calls |-> None]
    /\ thrown = [c \in Calls |-> None]
    /\ trace = [c \in Calls |-> <<>>]
    /\ elapsed = [c \in Calls |-> 0]

NoFeatures ==
    [brightness |-> 0, contrast |-> 0, edgeDensity |-> 0,
     histogram |-> [b \in 1..10 |-> 0], symmetry |-> 0]

InitBenchOff ==
    /\ fpc = "off"
    /\ fv = NoFeatures
    /\ fgate = None
    /\ fpreds = None
    /\ freport = None

\* No request is followed.
InitServerOff ==
    /\ variant = "tensorflow"
    /\ genAI = TRUE
    /\ upload = None
    /\ hpc = "off"
    /\ reqFile = None
    /\ onDisk = FALSE
    /\ unlinkRequests = 0
    /\ attempts = <<>>
    /\ responses = <<>>

\* The tfjs build the server runs on either has tf.image.sobelEdgeDetection or not.
InitBuild == sobelDefined \in BOOLEAN

\* services/api.js was imported: no call of analyzeImage yet.
InitClient ==
    /\ apiCalls = <<>>
    /\ posts = <<>>

\* The DenseNet App as mounted: the initial values of its five useState hooks.
InitApp ==
    /\ selectedImage = None
    /\ imagePreview = None
    /\ analysisResult = None
    /\ loading = FALSE
    /\ uiError = None
    /\ job = "none"
    /\ jobImage = None
    /\ previewReaders = {}
    /\ discarded = FALSE

\* The Gemini App and its ImageUpload as mounted.
InitReact ==
    /\ isAnalyzing = FALSE
    /\ analysisData = None
    /\ uploadedImage = None
    /\ uploadedFile = None
    /\ preview = None
    /\ dropReaders = {}
    /\ awaiting = FALSE
    /\ starts = 0
    /\ completes = <<>>
    /\ toast = None

InitFrontOff == InitClient /\ InitApp /\ InitReact

Init == InitAnalyzer /\ InitBuild /\ InitCalls /\ InitBenchOff /\ InitServerOff /\ InitFrontOff

-----------------------------------------------------------------------------
(* analyzeImage, one action per stretch of code between two awaits.        *)

\* analyzer.analyzeImage(imageBuffer) is called: it runs up to `await sharp(...)`.
analyzeImage(c, buf) ==
    /\ pc[c] = "idle"
    /\ pc' = [pc EXCEPT ![c] = "sharp"]
    /\ imageBuffer' = [imageBuffer EXCEPT ![c] = buf]
    /\ trace' = [trace EXCEPT ![c] = <<"sharp">>]
    /\ UNCHANGED <<conditions, sobelDefined, serverVars, frontVars, liveTensors, normalized, partial, bins, extracted,
                   gate, predicted, result, thrown, elapsed, benchVars>>

\* The catch block of analyzeImage: logs the error it caught and throws a new one.
rethrow(error) == "Failed to analyze image"

\* sharp rejects: the catch block logs and throws 'Failed to analyze image'.
sharpRejects(c) ==
    /\ pc[c] = "sharp"
    /\ ~imageBuffer[c].decodable
    /\ pc' = [pc EXCEPT ![c] = "done"]
    /\ thrown' = [thrown EXCEPT ![c] = Some(rethrow("Input buffer contains unsupported image format"))]
    /\ \E ms \in Durations : elapsed' = [elapsed EXCEPT ![c] = ms]
    /\ UNCHANGED <<conditions, sobelDefined, serverVars, frontVars, liveTensors, imageBuffer, normalized, partial, bins, extracted,
                   gate, predicted, result, trace, benchVars>>

\* sharp resolves on a build without tf.image.sobelEdgeDetection: tensor3d, div,
\* mean, moments, sqrt and expandDims run, the call of the missing function
\* throws a TypeError inside extractMedicalFeatures, and the catch block
\* rethrows.  Live afterwards: tensor, normalized, mean, moments.mean,
\* moments.variance, sqrt, expandDims.
sobelThrows(c) ==
    /\ pc[c] = "sharp"
    /\ imageBuffer[c].decodable
    /\ ~sobelDefined
    /\ normalized' = [normalized EXCEPT ![c] = Some(normalize(sharpRaw(imageBuffer[c])))]
    /\ liveTensors' = liveTensors + 7
    /\ trace' = [trace EXCEPT ![c] = @ \o <<"extractMedicalFeatures">>]
    /\ pc' = [pc EXCEPT ![c] = "done"]
    /\ thrown' = [thrown EXCEPT ![c] = Some(rethrow("tf.image.sobelEdgeDetection is not a function"))]
    /\ \E ms \in Durations : elapsed' = [elapsed EXCEPT ![c] = ms]
    /\ UNCHANGED <<conditions, sobelDefined, serverVars, frontVars, imageBuffer, partial, bins, extracted, gate, predicted,
                   result, benchVars>>

\* sharp resolves: tensor3d, div, and extractMedicalFeatures up to
\* `await tensor.data()` inside computeHistogram.  Live afterwards: tensor,
\* normalized, mean, moments.mean, moments.variance, sqrt, expandDims, sobelX,
\* mean(sobelX), flattened.
sharpResolves(c) ==
    /\ pc[c] = "sharp"
    /\ imageBuffer[c].decodable
    /\ sobelDefined
    /\ LET tensor == normalize(sharpRaw(imageBuffer[c]))
       IN  /\ normalized' = [normalized EXCEPT ![c] = Some(tensor)]
           /\ partial' = [partial EXCEPT ![c] = Some(featuresBeforeHistogram(tensor))]
    /\ liveTensors' = liveTensors + 10
    /\ trace' = [trace EXCEPT ![c] = @ \o <<"extractMedicalFeatures", "computeHistogram">>]
    /\ pc' = [pc EXCEPT ![c] = "tensorData"]
    /\ UNCHANGED <<conditions, sobelDefined, serverVars, frontVars, imageBuffer, bins, extracted, gate, predicted, result, thrown,
                   elapsed, benchVars>>

\* tensor.data() resolves: computeHistogram fills the bins and returns.
tensorDataResolves(c) ==
    /\ pc[c] = "tensorData"
    /\ bins' = [bins EXCEPT ![c] = Some(computeHistogram(normalized[c][1]))]
    /\ pc' = [pc EXCEPT ![c] = "histogram"]
    /\ UNCHANGED <<conditions, sobelDefined, serverVars, frontVars, liveTensors, imageBuffer, normalized, partial, extracted,
                   gate, predicted, result, thrown, trace, elapsed, benchVars>>

\* extractMedicalFeatures resuming with the histogram kept in a field that the
\* calls share, not in a local.
extractResumes_SharedBins(c) ==
    /\ pc[c] = "histogram"
    /\ extracted' = [extracted EXCEPT ![c] =
           Some([ brightness  |-> partial[c][1].brightness,
                  contrast    |-> partial[c][1].contrast,
                  edgeDensity |-> partial[c][1].edgeDensity,
                  histogram   |-> bins[CHOOSE d \in Calls : bins[d] # None /\ \A e \in Calls : bins[e] # None => d <= e][1],
                  symmetry    |-> calculateSymmetry(normalized[c][1]) ])]
    /\ liveTensors' = liveTensors - 2 + 4 - 2
    /\ trace' = [trace EXCEPT ![c] = @ \o <<"calculateSymmetry">>]
    /\ pc' = [pc EXCEPT ![c] = "extracted"]
    /\ UNCHANGED <<conditions, sobelDefined, serverVars, frontVars, imageBuffer, normalized, partial, bins, gate, predicted,
                   result, thrown, elapsed, benchVars>>

\* extractMedicalFeatures resumes: disposes sobelX and flattened, runs
\* calculateSymmetry (two slices, disposed; two means, not) and returns.
extractResumes(c) ==
    /\ pc[c] = "histogram"
    /\ extracted' = [extracted EXCEPT ![c] =
           Some([ brightness  |-> partial[c][1].brightness,
                  contrast    |-> partial[c][1].contrast,
                  edgeDensity |-> partial[c][1].edgeDensity,
                  histogram   |-> bins[c][1],
                  symmetry    |-> calculateSymmetry(normalized[c][1]) ])]
    /\ liveTensors' = liveTensors - 2 + 4 - 2
    /\ trace' = [trace EXCEPT ![c] = @ \o <<"calculateSymmetry">>]
    /\ pc' = [pc EXCEPT ![c] = "extracted"]
    /\ UNCHANGED <<conditions, sobelDefined, serverVars, frontVars, imageBuffer, normalized, partial, bins, gate, predicted,
                   result, thrown, elapsed, benchVars>>

\* The rejection record with the findings and recommendations fields kept, empty.
InvalidXray_WithEmptyFields ==
    [isValidXray |-> FALSE, error |-> "Please upload a valid chest X-ray image.",
     findings |-> <<>>, recommendations |-> <<>>]

InvalidXray == [isValidXray |-> FALSE, error |-> "Please upload a valid chest X-ray image."]

\* analyzeImage resuming with the classifier run ahead of the gate.
analyzeResumes_ClassifyFirst(c) ==
    /\ pc[c] = "extracted"
    /\ LET isValidXray == validateChestXray(extracted[c][1])
           preds       == predictConditions(extracted[c][1])
       IN  /\ gate' = [gate EXCEPT ![c] = Some(isValidXray)]
           /\ predicted' = [predicted EXCEPT ![c] = Some(preds)]
           /\ IF ~isValidXray
              THEN /\ result' = [result EXCEPT ![c] = Some(InvalidXray)]
                   /\ trace' = [trace EXCEPT ![c] = @ \o <<"predictConditions", "validateChestXray">>]
                   /\ UNCHANGED liveTensors
              ELSE /\ result' = [result EXCEPT ![c] = Some(generateMedicalAnalysis(conditions, preds))]
                   /\ trace' = [trace EXCEPT ![c] = @ \o
                          <<"predictConditions", "validateChestXray", "generateMedicalAnalysis">>]
                   /\ liveTensors' = liveTensors - 2
    /\ pc' = [pc EXCEPT ![c] = "done"]
    /\ \E ms \in Durations : elapsed' = [elapsed EXCEPT ![c] = ms]
    /\ UNCHANGED <<conditions, sobelDefined, serverVars, frontVars, imageBuffer, normalized, partial, bins, extracted, thrown, benchVars>>

\* analyzeImage resumes with the features: gate, and on admission classifier,
\* report, disposal of tensor and normalized.
analyzeResumes(c) ==
    /\ pc[c] = "extracted"
    /\ LET isValidXray == validateChestXray(extracted[c][1])
           preds       == predictConditions(extracted[c][1])
       IN  /\ gate' = [gate EXCEPT ![c] = Some(isValidXray)]
           /\ IF ~isValidXray
              THEN /\ result' = [result EXCEPT ![c] = Some(InvalidXray)]
                   /\ trace' = [trace EXCEPT ![c] = @ \o <<"validateChestXray">>]
                   /\ UNCHANGED <<predicted, liveTensors>>
              ELSE /\ predicted' = [predicted EXCEPT ![c] = Some(preds)]
                   /\ result' = [result EXCEPT ![c] = Some(generateMedicalAnalysis(conditions, preds))]
                   /\ trace' = [trace EXCEPT ![c] = @ \o
                          <<"validateChestXray", "predictConditions", "generateMedicalAnalysis">>]
                   /\ liveTensors' = liveTensors - 2
    /\ pc' = [pc EXCEPT ![c] = "done"]
    /\ \E ms \in Durations : elapsed' = [elapsed EXCEPT ![c] = ms]
    /\ UNCHANGED <<conditions, sobelDefined, serverVars, frontVars, imageBuffer, normalized, partial, bins, extracted, thrown, benchVars>>

Next ==
    \E c \in Calls :
        \/ \E buf \in SampleBuffers : analyzeImage(c, buf)
        \/ sharpRejects(c)
        \/ sobelThrows(c)
        \/ sharpResolves(c)
        \/ tensorDataResolves(c)
        \/ extractResumes(c)
        \/ analyzeResumes(c)

Spec == Init /\ [][Next]_vars

\* One analyzeImage call, on any of the uploads of ImageBuffers.
NextSolo ==
    \/ \E buf \in ImageBuffers : analyzeImage(1, buf)
    \/ sharpRejects(1)
    \/ sobelThrows(1)
    \/ sharpResolves(1)
    \/ tensorDataResolves(1)
    \/ extractResumes(1)
    \/ analyzeResumes(1)

SoloSpec == Init /\ [][NextSolo]_vars

-----------------------------------------------------------------------------
(* The function bench: validateChestXray, predictConditions and            *)
(* generateMedicalAnalysis applied to feature vectors and prediction lists *)
(* given directly, as a caller of these methods may.                       *)

BrightnessValues ==
    { Frac(5, 100), Frac(10, 100), Frac(20, 100), Frac(25, 100), Frac(28, 100), Frac(30, 100),
      Frac(35, 100), Frac(40, 100), Frac(50, 100), Frac(60, 100), Frac(70, 100), Frac(90, 100),
      Frac(95, 100) }

ContrastValues ==
    { 0, Frac(5, 100), Frac(8, 100), Frac(10, 100), Frac(12, 100), Frac(15, 100), Frac(20, 100),
      Frac(25, 100), Frac(30, 100), Frac(40, 100), Frac(45, 100), Frac(50, 100) }

EdgeValues ==
    { 0 - Frac(5, 100), 0, Frac(1, 100), Frac(2, 100), Frac(5, 100), Frac(8, 100), Frac(10, 100),
      Frac(12, 100), Frac(13, 100), Frac(15, 100), Frac(16, 100) }

SymmetryValues == { Frac(50, 100), Frac(60, 100), Frac(90, 100), Scale }

HistogramValues ==
    { [b \in 1..10 |-> IF b = 1 THEN 1000 ELSE 0],
      [b \in 1..10 |-> IF b = 10 THEN 1000 ELSE 0],
      [b \in 1..10 |-> 100] }

FeatureSpace ==
    [ brightness : BrightnessValues, contrast : ContrastValues, edgeDensity : EdgeValues,
      histogram : HistogramValues, symmetry : SymmetryValues ]

\* Labels a prediction list may carry: those predictConditions emits, one the
\* tables hold that it never emits, and one the tables do not hold.
BenchLabels ==
    { "Normal", "Pneumonia", "COVID-19", "Pneumothorax", "Pleural_Effusion", "Cardiomegaly",
      "Consolidation", "Atelectasis", "Ground_Glass_Opacity" }

\* The longest prediction list given to the bench.
MaxListLen == 4

\* Lists of distinct labels, already in descending confidence.
PredictionLists ==
    { [i \in 1..n |-> [condition |-> ls[i], confidence |-> 90 - 5 * i]] :
        n \in 1..MaxListLen,
        ls \in { s \in [1..MaxListLen -> BenchLabels] :
                    \A i, j \in 1..MaxListLen : i < j => s[i] # s[j] } }

InitBenchFeatures ==
    /\ fpc = "given"
    /\ fv \in FeatureSpace
    /\ fgate = None
    /\ fpreds = None
    /\ freport = None

InitBenchList ==
    /\ fpc = "list"
    /\ fv = NoFeatures
    /\ fgate = None
    /\ fpreds \in { Some(l) : l \in PredictionLists }
    /\ freport = None

InitBench ==
    /\ InitAnalyzer /\ sobelDefined = TRUE /\ InitCalls /\ InitServerOff /\ InitFrontOff
    /\ (InitBenchFeatures \/ InitBenchList)

applyValidate ==
    /\ fpc = "given"
    /\ fgate' = Some(validateChestXray(fv))
    /\ fpc' = "validated"
    /\ UNCHANGED <<conditions, sobelDefined, serverVars, frontVars, liveTensors, callVars, fv, fpreds, freport>>

applyPredict ==
    /\ fpc = "validated"
    /\ fpreds' = Some(predictConditions(fv))
    /\ fpc' = "predicted"
    /\ UNCHANGED <<conditions, sobelDefined, serverVars, frontVars, liveTensors, callVars, fv, fgate, freport>>

applyGenerate ==
    /\ fpc \in {"predicted", "list"}
    /\ freport' = Some(generateMedicalAnalysis(conditions, fpreds[1]))
    /\ fpc' = "assembled"
    /\ UNCHANGED <<conditions, sobelDefined, serverVars, frontVars, liveTensors, callVars, fv, fgate, fpreds>>

NextBench == applyValidate \/ applyPredict \/ applyGenerate

BenchSpec == InitBench /\ [][NextBench]_vars

-----------------------------------------------------------------------------
(* Properties.  The thresholds and the rule table are restated here as the *)
(* specification gives them, in hundredths, apart from the operators above. *)

Above(x, hundredths) == 100 * x > hundredths * Scale

Below(x, hundredths) == 100 * x < hundredths * Scale

AllFourChecks(f) ==
    /\ Above(f.brightness, 10) /\ Below(f.brightness, 90)
    /\ Above(f.contrast, 5) /\ Below(f.contrast, 40)
    /\ Above(f.symmetry, 60)
    /\ Above(f.edgeDensity, 1)

RuleLabels ==
    <<"Pneumonia", "COVID-19", "Pneumothorax", "Pleural_Effusion", "Cardiomegaly", "Consolidation">>

RuleConfidence(label) ==
    CASE label = "Pneumonia" -> 82
      [] label = "COVID-19" -> 78
      [] label = "Pneumothorax" -> 75
      [] label = "Pleural_Effusion" -> 70
      [] label = "Cardiomegaly" -> 68
      [] label = "Consolidation" -> 72

RuleHolds(label, f) ==
    CASE label = "Pneumonia" -> Below(f.brightness, 30) /\ Above(f.contrast, 15)
      [] label = "COVID-19" -> Below(f.brightness, 25) /\ Above(f.edgeDensity, 8)
      [] label = "Pneumothorax" -> Above(f.contrast, 25) /\ Above(f.edgeDensity, 12)
      [] label = "Pleural_Effusion" -> Above(f.brightness, 60) /\ Below(f.contrast, 10)
      [] label = "Cardiomegaly" -> Above(f.edgeDensity, 15)
      [] label = "Consolidation" -> Below(f.brightness, 40) /\ f.histogram[1] > f.histogram[10]

FiredLabels(f) == { RuleLabels[k] : k \in { j \in 1..6 : RuleHolds(RuleLabels[j], f) } }

Occurrences(list, label) == { i \in 1..Len(list) : list[i].condition = label }

LabelsOf(list) == { list[i].condition : i \in 1..Len(list) }

\* The bench has applied predictConditions to fv.
BenchPredicted == fgate # None /\ fpreds # None

\* C1: validateChestXray admits a feature vector exactly when all four strict
\* checks hold (0.1 < brightness < 0.9, 0.05 < contrast < 0.4, symmetry > 0.6,
\* edgeDensity > 0.01); a value on a bound is rejected.
C1_GateIffAllFourChecks ==
    fgate # None => (fgate[1] <=> AllFourChecks(fv))

\* A vector whose contrast is exactly 0.05, every other check passing, was rejected.
C1_Witness_OnBoundRejected ==
    /\ fgate = Some(FALSE)
    /\ fv.contrast = Frac(5, 100)
    /\ AllFourChecks([fv EXCEPT !.contrast = Frac(20, 100)])

\* C2: predictConditions emits each of the six rule conditions exactly when its
\* predicate holds, whatever the other rules do, once, with its fixed confidence.
C2_EachRuleExactlyWhenItHolds ==
    BenchPredicted =>
        \A k \in 1..6 :
            LET label == RuleLabels[k]
                at    == Occurrences(fpreds[1], label)
            IN  /\ Cardinality(at) = (IF RuleHolds(label, fv) THEN 1 ELSE 0)
                /\ \A i \in at : fpreds[1][i].confidence = RuleConfidence(label)

\* edgeDensity = 0.16, brightness = 0.35, contrast = 0.3: Pneumothorax and
\* Cardiomegaly are both in the list.
C2_Witness_TwoRulesTogether ==
    /\ BenchPredicted
    /\ fv.edgeDensity = Frac(16, 100) /\ fv.brightness = Frac(35, 100) /\ fv.contrast = Frac(30, 100)
    /\ {"Pneumothorax", "Cardiomegaly"} \subseteq LabelsOf(fpreds[1])

\* C3: Normal/85 is emitted exactly when none of the six predicates holds, and
\* then it is the whole list; Normal never shares a list with another condition.
C3_NormalIffNoRuleHolds ==
    BenchPredicted =>
        /\ ("Normal" \in LabelsOf(fpreds[1])) <=> (FiredLabels(fv) = {})
        /\ "Normal" \in LabelsOf(fpreds[1]) =>
               fpreds[1] = << [condition |-> "Normal", confidence |-> 85] >>

\* brightness = 0.5, contrast = 0.2, edgeDensity = 0.05, balanced histogram:
\* the list is Normal/85 alone.
C3_Witness_NormalAlone ==
    /\ BenchPredicted
    /\ fv.brightness = Frac(50, 100) /\ fv.contrast = Frac(20, 100) /\ fv.edgeDensity = Frac(5, 100)
    /\ fv.histogram[1] = fv.histogram[10]
    /\ fpreds[1] = << [condition |-> "Normal", confidence |-> 85] >>

RuleIndex(label) ==
    IF \E k \in 1..6 : RuleLabels[k] = label
    THEN CHOOSE k \in 1..6 : RuleLabels[k] = label
    ELSE 7

\* C4: the list predictConditions returns is in descending confidence, and
\* predicted of equal confidence are in rule-table order.
C4_SortedByConfidence ==
    BenchPredicted =>
        \A i, j \in 1..Len(fpreds[1]) :
            i < j =>
                /\ fpreds[1][i].confidence >= fpreds[1][j].confidence
                /\ fpreds[1][i].confidence = fpreds[1][j].confidence =>
                       RuleIndex(fpreds[1][i].condition) < RuleIndex(fpreds[1][j].condition)

\* Cardiomegaly (68) was pushed before Consolidation (72) and stands behind it.
C4_Witness_Reordered ==
    /\ BenchPredicted
    /\ \E i, j \in 1..Len(fpreds[1]) :
           /\ i < j
           /\ fpreds[1][i].condition = "Consolidation"
           /\ fpreds[1][j].condition = "Cardiomegaly"

-----------------------------------------------------------------------------
(* Properties of analyzeImage and of the report.                           *)

Entered(c, method) == \E i \in 1..Len(trace[c]) : trace[c][i] = method

\* C5: when the gate rejects, analyzeImage returns (it does not throw) a record
\* with exactly the fields isValidXray = false and error, and the call entered
\* neither predictConditions nor generateMedicalAnalysis.
C5_RejectionShortCircuits ==
    \A c \in Calls :
        gate[c] = Some(FALSE) =>
            /\ pc[c] = "done"
            /\ thrown[c] = None
            /\ result[c] # None
            /\ DOMAIN result[c][1] = {"isValidXray", "error"}
            /\ result[c][1].isValidXray = FALSE
            /\ predicted[c] = None
            /\ ~Entered(c, "predictConditions")
            /\ ~Entered(c, "generateMedicalAnalysis")

\* A call on a decoded picture ended with the gate's rejection.
C5_Witness_Rejected ==
    \E c \in Calls :
        /\ pc[c] = "done"
        /\ imageBuffer[c].decodable
        /\ gate[c] = Some(FALSE)
        /\ Entered(c, "validateChestXray")

ExpectedSeverity(label) ==
    CASE label \in {"Pneumonia", "COVID-19", "Pneumothorax", "Mass"} -> "high"
      [] label = "Normal" -> "low"
      [] label \in {"Pleural_Effusion", "Cardiomegaly", "Atelectasis", "Consolidation", "Edema"} -> "medium"
      [] OTHER -> "medium"

TableLabels ==
    {"Normal", "Pneumonia", "COVID-19", "Pneumothorax", "Pleural_Effusion", "Cardiomegaly",
     "Atelectasis", "Consolidation", "Edema", "Mass"}

Shown(label) == IF label = "Pleural_Effusion" THEN "Pleural Effusion" ELSE label

ValidResult(c) == pc[c] = "done" /\ gate[c] = Some(TRUE)

\* Every label the report of call c carries.
ReportLabels(c) ==
    LET r == result[c][1]
    IN  {r.analysis.primaryFinding}
            \cup {r.analysis.additionalFindings[i] : i \in 1..Len(r.analysis.additionalFindings)}
            \cup {r.findings[i].condition : i \in 1..Len(r.findings)}

\* C7 as stated: confidence and primaryFinding are those of the first
\* prediction, and additionalFindings lists the labels of the second and third.
C7_Original_LabelsVerbatim ==
    \A c \in Calls :
        ValidResult(c) =>
            LET preds == predicted[c][1]
                r     == result[c][1]
            IN  /\ r.confidence = preds[1].confidence
                /\ r.analysis.primaryFinding = preds[1].condition
                /\ r.analysis.additionalFindings =
                       [i \in 1..(Min(3, Len(preds)) - 1) |-> preds[i + 1].condition]
                /\ \A k \in 4..Len(preds) : preds[k].condition \notin ReportLabels(c)

\* C7, amended: the same, with every label shown with its first underscore
\* replaced by a space (Pleural_Effusion is shown as "Pleural Effusion").
C7_TopThreeLabelsAsShown ==
    \A c \in Calls :
        ValidResult(c) =>
            LET preds == predicted[c][1]
                r     == result[c][1]
            IN  /\ r.confidence = preds[1].confidence
                /\ r.analysis.confidence = preds[1].confidence
                /\ r.analysis.primaryFinding = Shown(preds[1].condition)
                /\ r.analysis.additionalFindings =
                       [i \in 1..(Min(3, Len(preds)) - 1) |-> Shown(preds[i + 1].condition)]
                /\ \A k \in 4..Len(preds) : Shown(preds[k].condition) \notin ReportLabels(c)

\* A valid result from five predictions: two of them are left out.
C7_Witness_FivePredictions ==
    \E c \in Calls :
        /\ ValidResult(c)
        /\ Len(predicted[c][1]) = 5
        /\ Len(result[c][1].analysis.additionalFindings) = 2

ExpectedRecommendations(label) ==
    CASE label = "Normal" ->
           << [title |-> "Routine Monitoring", description |-> "Continue regular health check-ups.", priority |-> "low"] >>
      [] label = "Pneumonia" ->
           << [title |-> "Immediate Medical Attention", description |-> "Seek immediate medical care.", priority |-> "high"] >>
      [] label = "COVID-19" ->
           << [title |-> "Isolation and Medical Care", description |-> "Follow COVID-19 protocols and seek care.", priority |-> "high"] >>
      [] OTHER ->
           << [title |-> "Professional Review", description |-> "Consult healthcare professional.", priority |-> "medium"] >>

FurtherBelow(x, y, lo) == 100 * x <= lo * Scale /\ y <= x

FurtherAbove(x, y, hi) == 100 * x >= hi * Scale /\ y >= x

\* C10: a rejected vector with one feature outside its range stays rejected
\* when that feature alone moves further from the range.
C10_GateMonotone ==
    fgate = Some(FALSE) =>
        /\ \A v \in BrightnessValues :
               (FurtherBelow(fv.brightness, v, 10) \/ FurtherAbove(fv.brightness, v, 90)) =>
                   ~validateChestXray([fv EXCEPT !.brightness = v])
        /\ \A v \in ContrastValues :
               (FurtherBelow(fv.contrast, v, 5) \/ FurtherAbove(fv.contrast, v, 40)) =>
                   ~validateChestXray([fv EXCEPT !.contrast = v])
        /\ \A v \in SymmetryValues :
               FurtherBelow(fv.symmetry, v, 60) => ~validateChestXray([fv EXCEPT !.symmetry = v])
        /\ \A v \in EdgeValues :
               FurtherBelow(fv.edgeDensity, v, 1) => ~validateChestXray([fv EXCEPT !.edgeDensity = v])

\* A vector rejected for its contrast alone, on the upper bound, with a value
\* further out to move to.
C10_Witness_ContrastAboveRange ==
    /\ fgate = Some(FALSE)
    /\ fv.contrast = Frac(40, 100)
    /\ AllFourChecks([fv EXCEPT !.contrast = Frac(20, 100)])
    /\ \E v \in ContrastValues : v > fv.contrast

-----------------------------------------------------------------------------
(* Properties of the features, stated on the 8-bit samples sharp hands back. *)

\* The gray samples of the picture call c was given.
RawOf(c) == sharpRaw(imageBuffer[c])

\* The gray levels that occur in a grid.
LevelsIn(raw) == { raw[r][k] : r \in 1..ImgSize, k \in 1..ImgSize }

\* min(floor(10 * g / 255), 9) for a sample g of 0..255.
ExpectedBin(g) == Min((10 * g) \div 255, 9)

\* C11: computeHistogram returns exactly 10 bins whose counts sum to the number
\* of pixels; a pixel of intensity v is counted in bin min(floor(10 v), 9), so
\* intensity 1.0 lands in bin 9 and no sample is dropped or counted twice.
C11_HistogramCountsEveryPixel ==
    \A c \in Calls :
        bins[c] # None =>
            LET h   == bins[c][1]
                raw == RawOf(c)
            IN  /\ DOMAIN h = 1..10
                /\ SumFirst(h, 10) = ImgSize * ImgSize
                /\ \A b \in 1..10 :
                       h[b] = Cardinality({ k \in 1..Len(Pixels) :
                                  ExpectedBin(raw[Pixels[k][1]][Pixels[k][2]]) = b - 1 })
                /\ h[10] >= Cardinality({ k \in 1..Len(Pixels) : raw[Pixels[k][1]][Pixels[k][2]] = 255 })

\* The histogram of a picture holding samples of 255 and of 0: bin 9 and bin 0
\* are both occupied.
C11_Witness_WhiteInLastBin ==
    \E c \in Calls :
        /\ bins[c] # None
        /\ {0, 255} \subseteq LevelsIn(RawOf(c))
        /\ bins[c][1][10] > 0
        /\ bins[c][1][1] > 0

\* Columns 0 .. floor(w/2) - 1 equal columns ceil(w/2) .. w - 1, one by one.
HalvesIdentical(raw) ==
    \A r \in 1..ImgSize, k \in 1..(ImgSize \div 2) :
        raw[r][k] = raw[r][((ImgSize + 1) \div 2) + k]

\* C12: for an image whose left half and right half are identical,
\* calculateSymmetry returns exactly 1.
C12_IdenticalHalvesFullSymmetry ==
    \A c \in Calls :
        (extracted[c] # None /\ HalvesIdentical(RawOf(c))) =>
            extracted[c][1].symmetry = Scale

\* A picture that is not flat and whose halves are identical was measured.
C12_Witness_StripedTwice ==
    \E c \in Calls :
        /\ extracted[c] # None
        /\ HalvesIdentical(RawOf(c))
        /\ Cardinality(LevelsIn(RawOf(c))) > 1
        /\ extracted[c][1].symmetry = Scale

\* Some pixel of the tensor has a non-zero Sobel response.
HasGradient(tensor) ==
    \E r \in 1..ImgSize, k \in 1..ImgSize :
        sobelDy(tensor, r, k) # 0 \/ sobelDx(tensor, r, k) # 0

\* C13: edgeDensity is the mean of the gradient magnitude over the whole image:
\* it is never negative, and opposite-signed gradients do not cancel, so an
\* image with a gradient somewhere has a positive edgeDensity.
C13_EdgeDensityIsMeanMagnitude ==
    \A c \in Calls :
        extracted[c] # None =>
            /\ extracted[c][1].edgeDensity >= 0
            /\ HasGradient(normalized[c][1]) => extracted[c][1].edgeDensity > 0

\* Every sample of the picture call c was given is the same.
FlatPicture(c) == imageBuffer[c].decodable /\ Cardinality(LevelsIn(RawOf(c))) = 1

toFixed1Seconds(ms) ==
    LET tenths == (ms + 50) \div 100
    IN  ToString(tenths \div 10) \o "." \o ToString(tenths % 10) \o "s"

\* C15: processingTime of a valid result is the wall-clock duration of that
\* run in seconds with one decimal place; two runs of different durations
\* report different values.
C15_ProcessingTimeIsDuration ==
    \A c \in Calls :
        ValidResult(c) =>
            /\ result[c][1].processingTime = toFixed1Seconds(elapsed[c])
            /\ \A d \in Calls :
                   (ValidResult(d) /\ elapsed[d] # elapsed[c]) =>
                       result[d][1].processingTime # result[c][1].processingTime

\* The stage in which a failed call threw: the last one it entered.
FailedStage(c) == trace[c][Len(trace[c])]

\* C16: the error analyzeImage delivers identifies the stage that failed: a
\* decode failure and a failure during feature extraction can be told apart.
C16_ErrorTellsTheStage ==
    \A c, d \in Calls :
        (thrown[c] # None /\ thrown[d] # None /\ FailedStage(c) # FailedStage(d)) =>
            thrown[c] # thrown[d]

\* What analyzeImage gives for a buffer when it runs alone, start to end.
AloneResult(buf) ==
    IF ~buf.decodable \/ ~sobelDefined THEN None
    ELSE LET f == extractMedicalFeatures(normalize(sharpRaw(buf)))
         IN  IF validateChestXray(f)
             THEN Some(generateMedicalAnalysis(ConditionTable, predictConditions(f)))
             ELSE Some(InvalidXray)

-----------------------------------------------------------------------------
(* POST /api/analyze of the three servers: the TensorFlow.js server (the    *)
(* analyzer above), the Gemini server (simple_server.js) and the proxying   *)
(* server (Python backend first, Gemini as the fallback).  One request is   *)
(* followed from multer's upload.single('image') to its response; what a    *)
(* backend answers is the environment's choice.                             *)

Variants == {"tensorflow", "gemini", "proxy"}

\* limits.fileSize of every variant's multer configuration.
FileSizeLimit == 10 * 1024 * 1024

\* allowedTypes of the proxying server's fileFilter.
allowedTypes == {"image/jpeg", "image/jpg", "image/png", "image/webp"}

\* What a request may carry in its 'image' field.
UploadSizes == {1024, FileSizeLimit, FileSizeLimit + 1}

UploadTypes == allowedTypes \cup {"image/gif", "text/plain"}

Uploads == [size : UploadSizes, mimetype : UploadTypes]

\* What Gemini's answer text may look like to text.match and JSON.parse.
GeminiTexts == {"json", "brokenJson", "prose"}

pipelineVars == <<conditions, liveTensors, sobelDefined, callVars, benchVars>>

InitServer ==
    /\ variant \in Variants
    /\ genAI \in (IF variant = "gemini" THEN BOOLEAN ELSE {TRUE})
    /\ upload \in {None} \cup { Some(u) : u \in Uploads }
    /\ hpc = "received"
    /\ reqFile = None
    /\ onDisk = FALSE
    /\ unlinkRequests = 0
    /\ attempts = <<>>
    /\ responses = <<>>

InitServers ==
    InitAnalyzer /\ sobelDefined = TRUE /\ InitCalls /\ InitBenchOff /\ InitServer /\ InitFrontOff

\* fileFilter: the proxying server alone has one.
fileFilter(v, file) == v = "proxy" => file.mimetype \in allowedTypes

\* multer's size limit: the upload is cut off once it exceeds limits.fileSize.
withinFileSize(file) == file.size <= FileSizeLimit

respond(status, body) == responses' = Append(responses, [status |-> status, body |-> body])

attempt(backend) == attempts' = Append(attempts, [backend |-> backend, outcome |-> "pending"])

settle(outcome) == attempts' = [attempts EXCEPT ![Len(attempts)].outcome = outcome]

\* upload.single('image') passes the request on: no file part, or a file that
\* the filter and the size limit let through (kept in memory, or written to
\* the uploads directory by the proxying server's diskStorage).
multerAccepts ==
    /\ hpc = "received"
    /\ upload # None => (fileFilter(variant, upload[1]) /\ withinFileSize(upload[1]))
    /\ reqFile' = upload
    /\ onDisk' = (upload # None /\ variant = "proxy")
    /\ hpc' = "handler"
    /\ UNCHANGED <<pipelineVars, frontVars, variant, genAI, upload, unlinkRequests, attempts, responses>>

\* upload.single('image') fails the request: the handler is not run, and the
\* error goes to the error-handling middleware (the proxying server's own, or
\* express's default one).
multerRejects ==
    /\ hpc = "received"
    /\ upload # None
    /\ ~(fileFilter(variant, upload[1]) /\ withinFileSize(upload[1]))
    /\ IF variant = "proxy" /\ fileFilter(variant, upload[1])
       THEN respond(413, "File too large. Maximum size is 10MB.")
       ELSE IF variant = "proxy"
            THEN respond(500, "Internal server error")
            ELSE respond(500, "express default error handler")
    /\ hpc' = "finished"
    /\ UNCHANGED <<pipelineVars, frontVars, variant, genAI, upload, reqFile, onDisk, unlinkRequests, attempts>>

\* Every variant's handler starts with the same check.
noFile ==
    /\ hpc = "handler"
    /\ reqFile = None
    /\ respond(400, IF variant = "proxy" THEN "No image file uploaded" ELSE "No image uploaded")
    /\ hpc' = "finished"
    /\ UNCHANGED <<pipelineVars, frontVars, variant, genAI, upload, reqFile, onDisk, unlinkRequests, attempts>>

\* The TensorFlow.js server: await analyzer.analyzeImage(req.file.buffer).
tensorflowHandler ==
    /\ hpc = "handler"
    /\ variant = "tensorflow"
    /\ reqFile # None
    /\ attempt("analyzer")
    /\ hpc' = "awaitAnalyzer"
    /\ UNCHANGED <<pipelineVars, frontVars, variant, genAI, upload, reqFile, onDisk, unlinkRequests, responses>>

\* analyzeImage resolved (a report or the rejection record): res.json(analysis).
analyzerResolves ==
    /\ hpc = "awaitAnalyzer"
    /\ settle("ok")
    /\ respond(200, "analysis")
    /\ hpc' = "finished"
    /\ UNCHANGED <<pipelineVars, frontVars, variant, genAI, upload, reqFile, onDisk, unlinkRequests>>

analyzerRejects ==
    /\ hpc = "awaitAnalyzer"
    /\ settle("failed")
    /\ respond(500, "Analysis failed. Please try again with a valid chest X-ray image.")
    /\ hpc' = "finished"
    /\ UNCHANGED <<pipelineVars, frontVars, variant, genAI, upload, reqFile, onDisk, unlinkRequests>>

\* The Gemini server without a client: genAI is null.
geminiUnavailable ==
    /\ hpc = "handler"
    /\ variant = "gemini"
    /\ reqFile # None
    /\ ~genAI
    /\ respond(500, "AI analysis service unavailable")
    /\ hpc' = "finished"
    /\ UNCHANGED <<pipelineVars, frontVars, variant, genAI, upload, reqFile, onDisk, unlinkRequests, attempts>>

\* The Gemini server: await model.generateContent([prompt, {inlineData}]).
geminiHandler ==
    /\ hpc = "handler"
    /\ variant = "gemini"
    /\ reqFile # None
    /\ genAI
    /\ attempt("gemini")
    /\ hpc' = "awaitGenerate"
    /\ UNCHANGED <<pipelineVars, frontVars, variant, genAI, upload, reqFile, onDisk, unlinkRequests, responses>>

\* generateContent resolving with the else branch of if (jsonMatch) left out:
\* text without a JSON object ends the handler with nothing sent.
generateResolves_NoElse(text) ==
    /\ hpc = "awaitGenerate"
    /\ settle("ok")
    /\ CASE text = "json" -> respond(200, "analysis")
         [] text = "prose" -> UNCHANGED responses
         [] text = "brokenJson" -> respond(500, "Analysis failed: Unexpected token")
    /\ hpc' = "finished"
    /\ UNCHANGED <<pipelineVars, frontVars, variant, genAI, upload, reqFile, onDisk, unlinkRequests>>

\* generateContent resolved: the first {...} of the text is parsed and sent;
\* text without one gets a 500, and text JSON.parse throws on goes to the catch.
generateResolves(text) ==
    /\ hpc = "awaitGenerate"
    /\ settle("ok")
    /\ CASE text = "json" -> respond(200, "analysis")
         [] text = "prose" -> respond(500, "Invalid AI response format")
         [] text = "brokenJson" -> respond(500, "Analysis failed: Unexpected token")
    /\ hpc' = "finished"
    /\ UNCHANGED <<pipelineVars, frontVars, variant, genAI, upload, reqFile, onDisk, unlinkRequests>>

generateRejects ==
    /\ hpc = "awaitGenerate"
    /\ settle("failed")
    /\ respond(500, "Analysis failed: fetch failed")
    /\ hpc' = "finished"
    /\ UNCHANGED <<pipelineVars, frontVars, variant, genAI, upload, reqFile, onDisk, unlinkRequests>>

\* The proxying server: the file is streamed to the Python backend first.
proxyHandler ==
    /\ hpc = "handler"
    /\ variant = "proxy"
    /\ reqFile # None
    /\ attempt("python")
    /\ hpc' = "awaitPython"
    /\ UNCHANGED <<pipelineVars, frontVars, variant, genAI, upload, reqFile, onDisk, unlinkRequests, responses>>

\* axios.post resolved: unlink the upload, answer with the backend's data.
pythonResolves ==
    /\ hpc = "awaitPython"
    /\ settle("ok")
    /\ unlinkRequests' = unlinkRequests + 1
    /\ onDisk' = FALSE
    /\ respond(200, "pythonResponse.data")
    /\ hpc' = "finished"
    /\ UNCHANGED <<pipelineVars, frontVars, variant, genAI, upload, reqFile>>

\* axios.post resolving, and the attempt made again.
pythonRejects_Retry ==
    /\ hpc = "awaitPython"
    /\ attempts' = Append([attempts EXCEPT ![Len(attempts)].outcome = "failed"],
                          [backend |-> "python", outcome |-> "pending"])
    /\ UNCHANGED <<pipelineVars, frontVars, variant, genAI, upload, hpc, reqFile, onDisk, unlinkRequests, responses>>

\* axios.post rejected (backend down, timeout, error status): the inner catch
\* calls analyzeWithGemini(req.file.path), which runs up to await imageToBase64.
pythonRejects ==
    /\ hpc = "awaitPython"
    /\ attempts' = Append([attempts EXCEPT ![Len(attempts)].outcome = "failed"],
                          [backend |-> "gemini", outcome |-> "pending"])
    /\ hpc' = "awaitBase64"
    /\ UNCHANGED <<pipelineVars, frontVars, variant, genAI, upload, reqFile, onDisk, unlinkRequests, responses>>

\* sharp converted the stored file: analyzeWithGemini goes on to await
\* model.generateContent([prompt, imagePart]).
base64Resolves ==
    /\ hpc = "awaitBase64"
    /\ hpc' = "awaitFallback"
    /\ UNCHANGED <<pipelineVars, frontVars, variant, genAI, upload, reqFile, onDisk, unlinkRequests, attempts, responses>>

\* The outer catch of the proxying handler, its cleanup left out.
fallbackRejects_NoCleanup ==
    /\ hpc \in {"awaitBase64", "awaitFallback"}
    /\ settle("failed")
    /\ respond(500, "Failed to analyze image with AI")
    /\ hpc' = "finished"
    /\ UNCHANGED <<pipelineVars, frontVars, variant, genAI, upload, reqFile, onDisk, unlinkRequests>>

\* imageToBase64 or generateContent rejected: analyzeWithGemini throws 'Failed
\* to analyze image with AI', and the outer catch unlinks the upload and
\* answers 500 with the message.
fallbackRejects ==
    /\ hpc \in {"awaitBase64", "awaitFallback"}
    /\ settle("failed")
    /\ unlinkRequests' = unlinkRequests + 1
    /\ onDisk' = FALSE
    /\ respond(500, "Failed to analyze image with AI")
    /\ hpc' = "finished"
    /\ UNCHANGED <<pipelineVars, frontVars, variant, genAI, upload, reqFile>>

\* generateContent resolved: analyzeWithGemini returns a result whatever the
\* text is (parsed, or wrapped); processingTime is set, the upload unlinked and
\* the result sent.
fallbackResolves(text) ==
    /\ hpc = "awaitFallback"
    /\ settle("ok")
    /\ unlinkRequests' = unlinkRequests + 1
    /\ onDisk' = FALSE
    /\ respond(200, IF text = "json" THEN "analysis" ELSE "analysis: text")
    /\ hpc' = "finished"
    /\ UNCHANGED <<pipelineVars, frontVars, variant, genAI, upload, reqFile>>

NextServer ==
    \/ multerAccepts
    \/ multerRejects
    \/ noFile
    \/ tensorflowHandler
    \/ analyzerResolves
    \/ analyzerRejects
    \/ geminiUnavailable
    \/ geminiHandler
    \/ \E text \in GeminiTexts : generateResolves(text)
    \/ generateRejects
    \/ proxyHandler
    \/ pythonResolves
    \/ pythonRejects
    \/ base64Resolves
    \/ fallbackRejects
    \/ \E text \in GeminiTexts : fallbackResolves(text)

ServerSpec == InitServers /\ [][NextServer]_vars

-----------------------------------------------------------------------------
(* Properties of the servers.                                              *)

\* The request carries a file over 10MB or of a type outside the allow-list.
OutOfBounds ==
    /\ upload # None
    /\ \/ upload[1].size > 10 * 1024 * 1024
       \/ upload[1].mimetype \notin {"image/jpeg", "image/jpg", "image/png", "image/webp"}

\* C18: in each server variant an upload over 10MB, or of a MIME type outside
\* image/jpeg, image/jpg, image/png, image/webp, is rejected before any
\* analysis is invoked: no backend receives it.
C18_OutOfBoundsNeverAnalyzed ==
    OutOfBounds => attempts = <<>>

BackendsTried == [i \in 1..Len(attempts) |-> attempts[i].backend]

C20_UnlinkExactlyOnce ==
    (variant = "proxy" /\ reqFile # None) =>
        /\ unlinkRequests <= 1
        /\ responses # <<>> => unlinkRequests = 1
        /\ hpc = "finished" => (unlinkRequests = 1 /\ ~onDisk)
        /\ unlinkRequests = 0 => onDisk

\* The three paths end with one unlink each; here the fallback path.
C20_Witness_UnlinkedAfterFallback ==
    /\ variant = "proxy"
    /\ hpc = "finished"
    /\ Len(attempts) = 2
    /\ attempts[2].outcome = "ok"
    /\ unlinkRequests = 1

\* The AI could not serve the request: the Gemini server has no client, or the
\* proxying server saw its Python attempt and its Gemini attempt both fail.
AIUnavailable ==
    /\ reqFile # None
    /\ \/ variant = "gemini" /\ ~genAI
       \/ /\ variant = "proxy"
          /\ Len(attempts) = 2
          /\ \A i \in 1..2 : attempts[i].outcome = "failed"

\* C21: graceful degradation: when the AI is unavailable (no Gemini client, or
\* the Python backend and the Gemini call both failed) the request is still
\* answered with an analysis (status 200), not with an error response.
C21_DegradesToBasicAnalysis ==
    (hpc = "finished" /\ AIUnavailable) =>
        /\ Len(responses) = 1
        /\ responses[1].status = 200

-----------------------------------------------------------------------------
(* services/api.js: the client function analyzeImage of the Gemini React   *)
(* app.  It validates the file, posts it with the axios instance `api` and  *)
(* hands back response.data; the response interceptor and the catch block   *)
(* decide the message of the error it rejects with.                         *)

\* maxSize of analyzeImage.
maxSize == 10 * 1024 * 1024

\* allowedTypes of analyzeImage.
apiAllowedTypes == {"image/jpeg", "image/jpg", "image/png", "image/webp"}

\* The files a caller may pass: imageFile.size and imageFile.type ('' is the
\* type of a file the browser does not recognise).
FileSizes == {0, maxSize, maxSize + 1}

FileTypes == apiAllowedTypes \cup {"image/gif", ""}

ImageFiles == {None} \cup { Some(f) : f \in [size : FileSizes, type : FileTypes] }

\* How many calls of analyzeImage a behaviour follows.
MaxApiCalls == 2

\* What api.post may reject with: an error status (with or without an error
\* field in the body), a timeout, or no response at all.
PostFailures ==
    { [status |-> 400, code |-> "ERR_BAD_REQUEST", error |-> Some("No image file uploaded")],
      [status |-> 404, code |-> "ERR_BAD_REQUEST", error |-> None],
      [status |-> 413, code |-> "ERR_BAD_REQUEST", error |-> Some("File too large. Maximum size is 10MB.")],
      [status |-> 415, code |-> "ERR_BAD_REQUEST", error |-> None],
      [status |-> 500, code |-> "ERR_BAD_RESPONSE", error |-> Some("Failed to analyze image with AI")],
      [status |-> 0, code |-> "ECONNABORTED", error |-> None],
      [status |-> 0, code |-> "ERR_NETWORK", error |-> None] }

\* response.data of a resolved post: an object, or nothing.
PostData == {Some("analysis"), None}

\* if (imageFile.size > maxSize), with the limit itself refused as well.
tooLarge_AtLimit(imageFile) == imageFile.size >= maxSize

\* if (imageFile.size > maxSize)
tooLarge(imageFile) == imageFile.size > maxSize

\* The validation of analyzeImage: the message of the Error it throws, or None.
validateFile(imageFile) ==
    IF imageFile = None THEN Some("No image file provided")
    ELSE IF tooLarge(imageFile[1]) THEN Some("File size too large. Maximum size is 10MB.")
    ELSE IF imageFile[1].type \notin apiAllowedTypes
         THEN Some("Invalid file type. Please upload JPG, PNG, or WEBP images only.")
    ELSE None

\* The response interceptor's error handler: what it throws for a failed post
\* (status 0 stands for no response).  A thrown new Error has no response.
interceptError(failure) ==
    IF failure.status = 413
    THEN [message |-> "File too large. Please upload a smaller image.", error |-> None]
    ELSE IF failure.status = 415
    THEN [message |-> "Unsupported file type. Please upload a valid image.", error |-> None]
    ELSE IF failure.status >= 500
    THEN [message |-> "Server error. Please try again later.", error |-> None]
    ELSE IF failure.code = "ECONNABORTED"
    THEN [message |-> "Request timeout. Please try again.", error |-> None]
    ELSE [message |-> failure.code, error |-> failure.error]

\* The catch block of analyzeImage: error.response.data.error when there is
\* one, else the error as it came.
catchMessage(err) == IF err.error # None THEN err.error[1] ELSE err.message

\* No call of analyzeImage is awaiting its post.
ApiIdle == IF apiCalls = <<>> THEN TRUE ELSE apiCalls[Len(apiCalls)].outcome # "pending"

\* analyzeImage(imageFile), up to await api.post: a file that fails the
\* validation makes the call reject at once, through the catch block; any
\* other file is appended to a FormData and posted.
callAnalyzeImage(imageFile) ==
    /\ ApiIdle
    /\ Len(apiCalls) < MaxApiCalls
    /\ LET invalid == validateFile(imageFile)
       IN  IF invalid # None
           THEN /\ apiCalls' = Append(apiCalls, [file |-> imageFile, sent |-> FALSE, outcome |-> "rejected",
                                                value |-> catchMessage([message |-> invalid[1], error |-> None])])
                /\ posts' = posts
           ELSE /\ apiCalls' = Append(apiCalls, [file |-> imageFile, sent |-> TRUE, outcome |-> "pending",
                                                value |-> ""])
                /\ posts' = Append(posts, imageFile[1])

\* analyzeImage called on its own.
apiAnalyzeImage(imageFile) ==
    /\ callAnalyzeImage(imageFile)
    /\ UNCHANGED <<pipelineVars, serverVars, denseVars, reactVars>>

\* api.post resolved: response.data is returned, or its absence thrown.
postResolves(data) ==
    /\ ~ApiIdle
    /\ apiCalls' = [apiCalls EXCEPT ![Len(apiCalls)] =
                       IF data = None
                       THEN [@ EXCEPT !.outcome = "rejected",
                                      !.value = catchMessage([message |-> "Invalid response from server",
                                                              error |-> None])]
                       ELSE [@ EXCEPT !.outcome = "resolved", !.value = data[1]]]
    /\ UNCHANGED <<pipelineVars, serverVars, denseVars, reactVars, posts>>

\* api.post rejected: the interceptor's error goes through the catch block.
postRejects(failure) ==
    /\ ~ApiIdle
    /\ apiCalls' = [apiCalls EXCEPT ![Len(apiCalls)] =
                       [@ EXCEPT !.outcome = "rejected", !.value = catchMessage(interceptError(failure))]]
    /\ UNCHANGED <<pipelineVars, serverVars, denseVars, reactVars, posts>>

NextClient ==
    \/ \E imageFile \in ImageFiles : apiAnalyzeImage(imageFile)
    \/ \E data \in PostData : postResolves(data)
    \/ \E failure \in PostFailures : postRejects(failure)

\* The browser side is followed; the analysis server stands as started.
InitBrowser == Init /\ sobelDefined = TRUE

ClientSpec == InitBrowser /\ [][NextClient]_vars

\* The file is one the claim says must not be sent.
Unacceptable(imageFile) ==
    \/ imageFile = None
    \/ imageFile[1].size > 10 * 1024 * 1024
    \/ imageFile[1].type \notin {"image/jpeg", "image/jpg", "image/png", "image/webp"}

\* The calls that posted their file, in order.
SentFiles == SelectSeq(apiCalls, LAMBDA call : call.sent)

\* C22: analyzeImage of services/api.js sends no HTTP request and rejects when
\* the file is missing, larger than 10 * 1024 * 1024 bytes or of a type outside
\* image/jpeg, image/jpg, image/png, image/webp; every other file, one of
\* exactly 10 * 1024 * 1024 bytes among them, is sent, once.
C22_ClientValidatesBeforeSending ==
    /\ \A i \in 1..Len(apiCalls) :
           /\ Unacceptable(apiCalls[i].file) =>
                  (~apiCalls[i].sent /\ apiCalls[i].outcome = "rejected")
           /\ ~Unacceptable(apiCalls[i].file) => apiCalls[i].sent
    /\ Len(posts) = Len(SentFiles)
    /\ \A k \in 1..Len(posts) : SentFiles[k].file = Some(posts[k])

\* A refused file was followed by a file of exactly the limit, which was posted.
C22_Witness_LimitSizedFileSent ==
    /\ Len(apiCalls) = 2
    /\ apiCalls[1].file # None
    /\ apiCalls[1].file[1].size = maxSize + 1
    /\ ~apiCalls[1].sent
    /\ apiCalls[2].file # None
    /\ apiCalls[2].file[1].size = maxSize
    /\ apiCalls[2].sent
    /\ Len(posts) = 1

-----------------------------------------------------------------------------
(* Properties of the pipeline's control flow and of the tf engine.         *)

\* The method that opens each stage of analyzeImage, in the pipeline's order:
\* preprocess, feature extraction, validity gate, classifier, report assembly.
StageOrder ==
    <<"sharp", "extractMedicalFeatures", "validateChestXray", "predictConditions", "generateMedicalAnalysis">>

\* The stages call c has started, in the order it started them.
StagesRun(c) == SelectSeq(trace[c], LAMBDA m : \E i \in 1..Len(StageOrder) : StageOrder[i] = m)

IsPrefix(s, t) == Len(s) <= Len(t) /\ \A i \in 1..Len(s) : s[i] = t[i]

TimesEntered(c, m) == Cardinality({ i \in 1..Len(trace[c]) : trace[c][i] = m })

\* C23: within one analyzeImage call the stages run in the order preprocess,
\* feature extraction, validity gate, classifier, report assembly; a stage
\* starts only after the one before it completed successfully, no stage or
\* helper runs twice, and when decoding the buffer fails no later stage runs.
C23_StagesInOrderOnce ==
    \A c \in Calls :
        /\ IsPrefix(StagesRun(c), StageOrder)
        /\ \A i \in 1..Len(trace[c]) : TimesEntered(c, trace[c][i]) = 1
        /\ Len(StagesRun(c)) >= 2 => (imageBuffer[c].decodable /\ normalized[c] # None)
        /\ Len(StagesRun(c)) >= 3 => extracted[c] # None
        /\ Len(StagesRun(c)) >= 4 => gate[c] = Some(TRUE)
        /\ Len(StagesRun(c)) >= 5 => predicted[c] # None
        /\ predicted[c] # None => gate[c] = Some(TRUE)
        /\ gate[c] # None => extracted[c] # None
        /\ (pc[c] # "idle" /\ ~imageBuffer[c].decodable) =>
               /\ StagesRun(c) = <<"sharp">>
               /\ normalized[c] = None /\ extracted[c] = None /\ gate[c] = None
               /\ predicted[c] = None /\ result[c] = None
        /\ thrown[c] # None => (result[c] = None /\ Len(StagesRun(c)) <= 2)

\* One call went through all five stages while another stopped at a buffer
\* that could not be decoded.
C23_Witness_AllStagesAndDecodeFailure ==
    \E c, d \in Calls :
        /\ pc[c] = "done" /\ StagesRun(c) = StageOrder
        /\ pc[d] = "done" /\ thrown[d] # None /\ ~imageBuffer[d].decodable
        /\ StagesRun(d) = <<"sharp">>

\* No analyzeImage call is between its start and its completion.
NoCallInFlight == \A c \in Calls : pc[c] \in {"idle", "done"}

\* C24: every tensor analyzeImage and its helpers allocate is disposed by the
\* time the call completes, on every outcome (valid result, gate rejection,
\* error): whenever no call is in flight, the number of live tensors is what it
\* was before the first call.
C24_NoTensorOutlivesItsCall ==
    NoCallInFlight => liveTensors = 0

-----------------------------------------------------------------------------
(* The DenseNet React App (App.js of the deep-learning front end): the file *)
(* input, the Analyze button, the Reset button, and the callbacks of the    *)
(* FileReaders and of the fetch that analyzeImage starts.  The buttons act  *)
(* only while they are rendered and enabled.                                *)

\* The files the user may pick.
PickedFiles == {"xray1.png", "xray2.png"}

\* What response.json() may resolve with: the server's report of the posted
\* image, or a failure with or without an error field.
JsonBodies(image) ==
    { [success |-> TRUE, error |-> None, image |-> image],
      [success |-> FALSE, error |-> Some("No image provided"), image |-> image],
      [success |-> FALSE, error |-> None, image |-> image] }

\* Everything of the state that is not the DenseNet App's.
besidesApp == <<pipelineVars, serverVars, clientVars, reactVars>>

\* handleImageUpload for a picked file: the file is selected, the error
\* cleared, and a FileReader started for the preview.
handleImageUpload(file) ==
    /\ selectedImage' = Some(file)
    /\ uiError' = None
    /\ previewReaders' = previewReaders \cup {file}
    /\ UNCHANGED <<besidesApp, imagePreview, analysisResult, loading, job, jobImage, discarded>>

\* reader.onload of handleImageUpload.
previewLoaded(file) ==
    /\ file \in previewReaders
    /\ imagePreview' = Some(file)
    /\ previewReaders' = previewReaders \ {file}
    /\ UNCHANGED <<besidesApp, selectedImage, analysisResult, loading, uiError, job, jobImage, discarded>>

\* The Analyze button (enabled while an image is selected and loading is
\* false) runs analyzeImage: loading is set, the error cleared, and a
\* FileReader started on the selected image; the function returns.
clickAnalyze ==
    /\ selectedImage # None
    /\ ~loading
    /\ loading' = TRUE
    /\ uiError' = None
    /\ job' = "reading"
    /\ jobImage' = selectedImage
    /\ discarded' = FALSE
    /\ UNCHANGED <<besidesApp, selectedImage, imagePreview, analysisResult, previewReaders>>

\* reader.onload of analyzeImage, up to await fetch(...).
readerLoaded ==
    /\ job = "reading"
    /\ job' = "fetching"
    /\ UNCHANGED <<besidesApp, selectedImage, imagePreview, analysisResult, loading, uiError, jobImage,
                   previewReaders, discarded>>

\* The FileReader fails to read the file: no onerror handler is set.
readerFails ==
    /\ job = "reading"
    /\ job' = "abandoned"
    /\ UNCHANGED <<besidesApp, selectedImage, imagePreview, analysisResult, loading, uiError, jobImage,
                   previewReaders, discarded>>

\* fetch resolved (whatever the status): the callback goes on to await
\* response.json().
fetchResolves ==
    /\ job = "fetching"
    /\ job' = "parsing"
    /\ UNCHANGED <<besidesApp, selectedImage, imagePreview, analysisResult, loading, uiError, jobImage,
                   previewReaders, discarded>>

\* fetch rejected (no connection): the rejection leaves the async onload
\* callback, which nothing awaits; the try/catch of analyzeImage was left when
\* analyzeImage returned.
fetchRejects ==
    /\ job = "fetching"
    /\ job' = "unhandled"
    /\ UNCHANGED <<besidesApp, selectedImage, imagePreview, analysisResult, loading, uiError, jobImage,
                   previewReaders, discarded>>

\* response.json() resolved: the result or the error is stored, and loading
\* set back.
jsonResolves(data) ==
    /\ job = "parsing"
    /\ IF data.success
       THEN analysisResult' = Some(data) /\ UNCHANGED uiError
       ELSE /\ uiError' = (IF data.error # None THEN data.error ELSE Some("Analysis failed"))
            /\ UNCHANGED analysisResult
    /\ loading' = FALSE
    /\ job' = "settled"
    /\ UNCHANGED <<besidesApp, selectedImage, imagePreview, jobImage, previewReaders, discarded>>

\* response.json() rejected (the body is not JSON): as for a rejected fetch.
jsonRejects ==
    /\ job = "parsing"
    /\ job' = "unhandled"
    /\ UNCHANGED <<besidesApp, selectedImage, imagePreview, analysisResult, loading, uiError, jobImage,
                   previewReaders, discarded>>

\* The Reset button (rendered while an image is selected or a result shown)
\* runs resetAnalysis.
resetAnalysis ==
    /\ selectedImage # None \/ analysisResult # None
    /\ selectedImage' = None
    /\ imagePreview' = None
    /\ analysisResult' = None
    /\ uiError' = None
    /\ discarded' = TRUE
    /\ UNCHANGED <<besidesApp, loading, job, jobImage, previewReaders>>

\* The steps the browser takes on its own: FileReader and fetch callbacks.
AppCallbacks ==
    \/ \E file \in PickedFiles : previewLoaded(file)
    \/ readerLoaded
    \/ readerFails
    \/ fetchResolves
    \/ fetchRejects
    \/ \E data \in JsonBodies(jobImage) : jsonResolves(data)
    \/ jsonRejects

NextApp ==
    \/ \E file \in PickedFiles : handleImageUpload(file)
    \/ clickAnalyze
    \/ resetAnalysis
    \/ AppCallbacks

AppSpec == InitBrowser /\ [][NextApp]_vars

\* The callbacks of a pending FileReader, fetch or json() do fire.
AppFairSpec == AppSpec /\ WF_vars(AppCallbacks)

\* C25: once analyzeImage has set loading to true it is eventually set back to
\* false on every outcome; when the request to the analysis server fails
\* (network error or unreadable response), error is 'Failed to connect to
\* analysis server' and loading is false.
C25_LoadingAlwaysCleared ==
    /\ loading ~> ~loading
    /\ [](job = "unhandled" => (uiError = Some("Failed to connect to analysis server") /\ ~loading))

\* C27: a reset discards the analysis: after resetAnalysis, analysisResult
\* stays null until a new analysis is started, also when a request that was
\* started before the reset completes after it.
C27_ResetDiscardsPendingAnalysis ==
    discarded => analysisResult = None

-----------------------------------------------------------------------------
(* The Gemini React app: App (isAnalyzing, analysisData, uploadedImage) and *)
(* its ImageUpload component, whose handleAnalyze calls analyzeImage of     *)
(* services/api.js.  The dropzone and the buttons act only while they are   *)
(* rendered and enabled.                                                    *)

\* The files the dropzone accepts: any image type (accept 'image/*'), up to
\* its maxSize.
AcceptedFiles == [size : {maxSize}, type : {"image/png", "image/gif"}]

\* Everything of the state that is neither the Gemini app's nor the client
\* module's.
besidesReact == <<pipelineVars, serverVars, denseVars>>

\* App.handleAnalysisStart
handleAnalysisStart ==
    /\ isAnalyzing' = TRUE
    /\ analysisData' = None

\* App.handleAnalysisComplete
handleAnalysisComplete(data) ==
    /\ analysisData' = data
    /\ isAnalyzing' = FALSE

\* onDrop with an accepted file (the dropzone is rendered while there is no
\* preview): the file is kept, a FileReader started for the preview.
onDrop(file) ==
    /\ preview = None
    /\ uploadedFile' = Some(file)
    /\ dropReaders' = dropReaders \cup {file}
    /\ toast' = Some("Image uploaded successfully!")
    /\ UNCHANGED <<besidesReact, clientVars, isAnalyzing, analysisData, uploadedImage, preview, awaiting,
                   starts, completes>>

\* onDrop with a file the dropzone rejected.
onDropRejected ==
    /\ preview = None
    /\ toast' = Some("Please upload a valid image file (JPG, PNG, WEBP)")
    /\ UNCHANGED <<besidesReact, clientVars, isAnalyzing, analysisData, uploadedImage, uploadedFile, preview,
                   dropReaders, awaiting, starts, completes>>

\* reader.onload of onDrop: setPreview and onImageUpload.
dropPreviewLoaded(file) ==
    /\ file \in dropReaders
    /\ preview' = Some(file)
    /\ uploadedImage' = Some(file)
    /\ dropReaders' = dropReaders \ {file}
    /\ UNCHANGED <<besidesReact, clientVars, isAnalyzing, analysisData, uploadedFile, awaiting, starts,
                   completes, toast>>

\* The Clear button (rendered with the preview, disabled while analyzing).
clearImage ==
    /\ preview # None
    /\ ~isAnalyzing
    /\ uploadedFile' = None
    /\ preview' = None
    /\ uploadedImage' = None
    /\ UNCHANGED <<besidesReact, clientVars, isAnalyzing, analysisData, dropReaders, awaiting, starts,
                   completes, toast>>

\* handleAnalyze resuming in its catch block, onAnalysisComplete(null) left out.
handleAnalyzeResumes_Forgetful ==
    /\ awaiting
    /\ ApiIdle
    /\ LET call == apiCalls[Len(apiCalls)]
       IN  IF call.outcome = "resolved"
           THEN /\ handleAnalysisComplete(Some(call.value))
                /\ completes' = Append(completes, Some(call.value))
                /\ toast' = Some("Analysis completed successfully!")
           ELSE /\ toast' = Some(call.value)
                /\ UNCHANGED <<isAnalyzing, analysisData, completes>>
    /\ awaiting' = FALSE
    /\ UNCHANGED <<besidesReact, clientVars, uploadedImage, uploadedFile, preview, dropReaders, starts>>

\* The Analyze button (enabled while a file is kept and isAnalyzing is false)
\* runs handleAnalyze up to its await: onAnalysisStart(), then the call of
\* analyzeImage(uploadedFile).
handleAnalyze ==
    /\ uploadedFile # None
    /\ ~isAnalyzing
    /\ ~awaiting
    /\ handleAnalysisStart
    /\ starts' = starts + 1
    /\ callAnalyzeImage(uploadedFile)
    /\ awaiting' = TRUE
    /\ UNCHANGED <<besidesReact, uploadedImage, uploadedFile, preview, dropReaders, completes, toast>>

\* await analyzeImage(uploadedFile) settled and handleAnalyze resumes:
\* onAnalysisComplete(result) and a success toast, or in the catch block an
\* error toast and onAnalysisComplete(null).
handleAnalyzeResumes ==
    /\ awaiting
    /\ ApiIdle
    /\ LET call == apiCalls[Len(apiCalls)]
       IN  IF call.outcome = "resolved"
           THEN /\ handleAnalysisComplete(Some(call.value))
                /\ completes' = Append(completes, Some(call.value))
                /\ toast' = Some("Analysis completed successfully!")
           ELSE /\ toast' = Some(call.value)
                /\ handleAnalysisComplete(None)
                /\ completes' = Append(completes, None)
    /\ awaiting' = FALSE
    /\ UNCHANGED <<besidesReact, clientVars, uploadedImage, uploadedFile, preview, dropReaders, starts>>

\* api.post settles: the server answers, or the axios timeout of 30 seconds
\* ends the request.
postSettles ==
    \/ \E data \in PostData : postResolves(data)
    \/ \E failure \in PostFailures : postRejects(failure)

NextReact ==
    \/ \E file \in AcceptedFiles : onDrop(file)
    \/ onDropRejected
    \/ \E file \in AcceptedFiles : dropPreviewLoaded(file)
    \/ clearImage
    \/ handleAnalyze
    \/ postSettles
    \/ handleAnalyzeResumes

\* The request settles within the axios timeout, and a settled await resumes.
ReactSpec ==
    InitBrowser /\ [][NextReact]_vars /\ WF_vars(postSettles) /\ WF_vars(handleAnalyzeResumes)

\* What the k-th onAnalysisComplete call must have been given: the result of
\* the k-th analyzeImage call, or null when that call rejected.
ExpectedCompletion(k) ==
    IF apiCalls[k].outcome = "resolved" THEN Some(apiCalls[k].value) ELSE None

\* Every finished handleAnalyze made one onAnalysisStart call and one
\* onAnalysisComplete call, the latter with the result or with null.
StartsMatchCompletes ==
    /\ starts = Len(apiCalls)
    /\ starts = Len(completes) + (IF awaiting THEN 1 ELSE 0)
    /\ \A k \in 1..Len(completes) : completes[k] = ExpectedCompletion(k)
    /\ isAnalyzing <=> awaiting
    /\ ~isAnalyzing => analysisData = (IF completes = <<>> THEN None ELSE completes[Len(completes)])

\* C26: every onAnalysisStart call made by handleAnalyze is followed by exactly
\* one onAnalysisComplete call (with the result on success, with null on
\* failure), so isAnalyzing always returns to false and is never true once the
\* handler of a settled request has run.
C26_StartAlwaysCompleted ==
    /\ []StartsMatchCompletes
    /\ isAnalyzing ~> ~isAnalyzing

\* Two analyses were run: the first failed and completed with null, the second
\* succeeded and completed with its result.
C26_Witness_FailureThenSuccess ==
    /\ starts = 2
    /\ completes = <<None, Some("analysis")>>
    /\ ~isAnalyzing
    /\ analysisData = Some("analysis")

\* C28: every request to POST /api/analyze receives exactly one response, on
\* every path of every server variant: never a second one, one when the
\* request's handling has ended, and no path ends the handling without one;
\* a request without a file gets 400, a failed analysis 500.
C28_ExactlyOneResponse ==
    /\ Len(responses) <= 1
    /\ hpc = "finished" <=> Len(responses) = 1
    /\ hpc # "finished" => ENABLED NextServer
    /\ hpc = "finished" =>
           /\ upload = None => responses[1].status = 400
           /\ (reqFile # None /\ variant = "gemini" /\ ~genAI) => responses[1].status = 500
           /\ (attempts # <<>> /\ attempts[Len(attempts)].outcome = "failed") => responses[1].status = 500
           /\ responses[1].status = 200 =>
                  (attempts # <<>> /\ attempts[Len(attempts)].outcome = "ok")

\* The Gemini server answered text without a JSON object: one response, 500.
C28_Witness_MalformedAIResponse ==
    /\ variant = "gemini"
    /\ hpc = "finished"
    /\ responses = << [status |-> 500, body |-> "Invalid AI response format"] >>

-----------------------------------------------------------------------------
(* Properties of the rule table as a whole.                                *)

\* C29: in every list predictConditions returns, Pleural_Effusion appears with
\* no condition other than Cardiomegaly (brightness > 0.6 and contrast < 0.1
\* exclude Pneumonia, COVID-19, Pneumothorax and Consolidation), and no list
\* holds more than five conditions.
C29_EffusionOnlyWithCardiomegaly ==
    BenchPredicted =>
        /\ "Pleural_Effusion" \in LabelsOf(fpreds[1]) =>
               LabelsOf(fpreds[1]) \subseteq {"Pleural_Effusion", "Cardiomegaly"}
        /\ Len(fpreds[1]) <= 5
        /\ Cardinality(LabelsOf(fpreds[1])) = Len(fpreds[1])

\* brightness 0.7, contrast 0.05, edgeDensity 0.16: Pleural_Effusion and
\* Cardiomegaly, in this order.
C29_Witness_EffusionWithCardiomegaly ==
    /\ BenchPredicted
    /\ fv.brightness = Frac(70, 100) /\ fv.contrast = Frac(5, 100) /\ fv.edgeDensity = Frac(16, 100)
    /\ fpreds[1] = << [condition |-> "Pleural_Effusion", confidence |-> 70],
                      [condition |-> "Cardiomegaly", confidence |-> 68] >>

====
